---- MODULE Spec2Model ----
(***************************************************************************)
(* Model of spotify-cli (`sp`): the response normalization layer           *)
(* (utils.py, the pure parts of client.py) and the command dispatch layer  *)
(* (main.py).                                                              *)
(*                                                                         *)
(* Python values are tagged records [t |-> <type>, v |-> <payload>]; a     *)
(* raised exception is the value Raise(<exception name>), which every      *)
(* operator propagates the way the interpreter unwinds.                    *)
(***************************************************************************)
EXTENDS Integers, Sequences, FiniteSets, TLC

VARIABLES
  fn, inp, out,                 \* a pure function applied: which, to what, its result
  argv,                         \* sys.argv[1:]
  pc,                           \* where the process is: main, dispatch, client, done
  json_mode, command, cmd_args, \* main()'s use_json, cmd and args[1:]
  plan,                         \* the client call _dispatch resolved
  calls, returned,              \* remote calls made, and what each returned
  stdout, stderr, exit_code     \* what the process printed, and its exit code

pureVars == <<fn, inp, out>>

cliVars ==
  <<argv, pc, json_mode, command, cmd_args, plan, calls, returned, stdout, stderr, exit_code>>

vars ==
  <<fn, inp, out, argv, pc, json_mode, command, cmd_args, plan, calls, returned, stdout,
    stderr, exit_code>>

-----------------------------------------------------------------------------
(* Bounds of the model. *)

\* longest artist list of a raw track or album item
MaxArtists == 3

\* longest item list of a raw playlist
MaxItems == 3

\* most tokens in a search category list
MaxTypes == 2

\* longest argument list handed to _get_flag on its own
MaxArgs == 4

\* most tokens after the command name on a command line
MaxRest == 3

\* longest comma-separated ID argument, in characters
MaxIdLen == 3

-----------------------------------------------------------------------------
(* Python values. *)

NoneV == [t |-> "None"]

Bool(b) == [t |-> "bool", v |-> b]

IntV(n) == [t |-> "int", v |-> n]

Str(s) == [t |-> "str", v |-> s]

\* a str the code takes apart, held as its sequence of characters
Chars(s) == [t |-> "chars", v |-> s]

List(s) == [t |-> "list", v |-> s]

Dict(f) == [t |-> "dict", v |-> f]

EmptyDict == Dict(<<>>)

Raise(e) == [t |-> "raise", v |-> e]

IsRaise(x) == x.t = "raise"

\* bool(x)
Truthy(x) ==
  CASE x.t = "None" -> FALSE
    [] x.t = "bool" -> x.v
    [] x.t = "int"  -> x.v # 0
    [] x.t = "str"  -> x.v # ""
    [] x.t = "chars" -> x.v # <<>>
    [] x.t = "list" -> x.v # <<>>
    [] x.t = "dict" -> DOMAIN x.v # {}
    [] OTHER        -> TRUE

\* d[k]
Getitem(d, k) ==
  IF IsRaise(d) THEN d
  ELSE IF d.t = "dict"
    THEN IF k \in DOMAIN d.v THEN d.v[k] ELSE Raise("KeyError")
    ELSE Raise("TypeError")

\* d.get(k, default)
Get(d, k, default) ==
  IF IsRaise(d) THEN d
  ELSE IF d.t = "dict"
    THEN IF k \in DOMAIN d.v THEN d.v[k] ELSE default
    ELSE Raise("AttributeError")

\* k in d
Contains(d, k) == d.t = "dict" /\ k \in DOMAIN d.v

\* the first exception among the values of a sequence, in evaluation order
RECURSIVE FirstRaise(_)
FirstRaise(s) ==
  IF s = <<>> THEN NoneV
  ELSE IF IsRaise(Head(s)) THEN Head(s) ELSE FirstRaise(Tail(s))

AnyRaise(s) == \E i \in 1..Len(s) : IsRaise(s[i])

\* value, unless one of the steps evaluated before it raised
OrRaise(steps, value) == IF AnyRaise(steps) THEN FirstRaise(steps) ELSE value

\* the entries a dict literal has only under a condition
Entries(cond, f) == IF cond THEN f ELSE <<>>

\* the elements a `for x in lst` visits
Elems(lst) == IF lst.t = "list" THEN lst.v ELSE <<>>

\* [f(x) for x in lst], r being f over Elems(lst): iterating a non-list raises,
\* and so does any f(x)
Comprehension(lst, r) ==
  IF IsRaise(lst) THEN lst
  ELSE IF lst.t # "list" THEN Raise("TypeError")
  ELSE IF AnyRaise(r) THEN FirstRaise(r)
  ELSE List(r)

\* [a["name"] for a in artists]
ArtistNames(artists) ==
  Comprehension(artists, [i \in DOMAIN Elems(artists) |-> Getitem(artists.v[i], "name")])

\* d[k] = v
SetItem(f, k, v) == (k :> v) @@ f

\* [x for x in lst if x]
FilterTruthy(lst) ==
  IF IsRaise(lst) THEN lst
  ELSE IF lst.t # "list" THEN Raise("TypeError")
  ELSE List(SelectSeq(lst.v, Truthy))

-----------------------------------------------------------------------------
(* utils.py: the parse functions. *)

RECURSIVE parse_track(_, _), parse_album(_, _)

parse_artist(artist_item, detailed) ==
  IF ~Truthy(artist_item) THEN NoneV
  ELSE
    LET Build(name, id, followers) ==
          OrRaise(IF detailed THEN <<name, id, followers>> ELSE <<name, id>>,
                  Dict(("name" :> name) @@ ("id" :> id)
                       @@ Entries(detailed,
                            ("genres" :> Get(artist_item, "genres", NoneV))
                            @@ ("followers" :> followers)
                            @@ ("popularity" :> Get(artist_item, "popularity", NoneV)))))
    IN Build(Getitem(artist_item, "name"), Getitem(artist_item, "id"),
             Get(Get(artist_item, "followers", EmptyDict), "total", NoneV))

\* mutant: the single-artist case is not collapsed
ArtistUnion_AlwaysList(artists) == artists

\* [parse_artist(a) for a in artists]
ParsedArtists(artists) ==
  Comprehension(artists,
                [i \in DOMAIN Elems(artists) |-> parse_artist(artists.v[i], FALSE)])

\* artists[0] if len(artists) == 1 else artists
ArtistUnion(artists) ==
  IF Len(artists.v) = 1 THEN artists.v[1] ELSE artists

\* the list of artist names, or of parsed artists when detailed
Artists(item, detailed) ==
  IF detailed THEN ParsedArtists(Getitem(item, "artists"))
  ELSE ArtistNames(Getitem(item, "artists"))

\* [parse_track(t) for t in items]
TrackList(items) ==
  Comprehension(items, [i \in DOMAIN Elems(items) |-> parse_track(items.v[i], FALSE)])

\* [parse_album(a) for a in items]
AlbumList(items) ==
  Comprehension(items, [i \in DOMAIN Elems(items) |-> parse_album(items.v[i], FALSE)])

parse_track(track_item, detailed) ==
  IF ~Truthy(track_item) THEN NoneV
  ELSE
    LET Build(name, id, album, names, artists) ==
          OrRaise(<<name, id, album, names, artists>>,
                  Dict(("artist" :> ArtistUnion(artists))
                       @@ Entries(~Truthy(Get(track_item, "is_playable", Bool(TRUE))),
                            "is_playable" :> Bool(FALSE))
                       @@ Entries(detailed,
                            ("album" :> album)
                            @@ ("track_number" :> Get(track_item, "track_number", NoneV))
                            @@ ("duration_ms" :> Get(track_item, "duration_ms", NoneV)))
                       @@ Entries(Contains(track_item, "is_playing"),
                            "is_playing" :> track_item.v["is_playing"])
                       @@ ("name" :> name) @@ ("id" :> id)))
    IN Build(Getitem(track_item, "name"), Getitem(track_item, "id"),
             IF detailed THEN parse_album(Get(track_item, "album", NoneV), FALSE) ELSE NoneV,
             ArtistNames(Getitem(track_item, "artists")),
             Artists(track_item, detailed))

parse_album(album_item, detailed) ==
  IF ~Truthy(album_item) THEN NoneV
  ELSE
    LET Build(name, id, names, tracks, artists) ==
          OrRaise(<<name, id, names, tracks, artists>>,
                  Dict(("artist" :> ArtistUnion(artists))
                       @@ Entries(detailed,
                            ("tracks" :> tracks)
                            @@ ("total_tracks" :> Get(album_item, "total_tracks", NoneV))
                            @@ ("release_date" :> Get(album_item, "release_date", NoneV))
                            @@ ("genres" :> Get(album_item, "genres", NoneV)))
                       @@ ("name" :> name) @@ ("id" :> id)))
    IN Build(Getitem(album_item, "name"), Getitem(album_item, "id"),
             ArtistNames(Getitem(album_item, "artists")),
             IF detailed
               THEN TrackList(Get(Get(album_item, "tracks", EmptyDict), "items", List(<<>>)))
               ELSE NoneV,
             Artists(album_item, detailed))

\* parse_track(t["track"])
ParseItemTrack(t) == parse_track(Getitem(t, "track"), FALSE)

\* [parse_track(t["track"]) for t in items]
ItemTrackList(items) ==
  Comprehension(items, [i \in DOMAIN Elems(items) |-> ParseItemTrack(items.v[i])])

parse_playlist(playlist_item, username, detailed) ==
  IF ~Truthy(playlist_item) THEN NoneV
  ELSE
    LET Build(name, id, owner, total, tracks) ==
          OrRaise(<<name, id, owner, total, tracks>>,
                  Dict(Entries(detailed,
                         ("description" :> Get(playlist_item, "description", NoneV))
                         @@ ("tracks" :> tracks))
                       @@ Entries(Truthy(username), "user_is_owner" :> Bool(owner = username))
                       @@ ("name" :> name) @@ ("id" :> id) @@ ("owner" :> owner)
                       @@ ("total_tracks" :> total)))
    IN Build(Getitem(playlist_item, "name"), Getitem(playlist_item, "id"),
             Getitem(Getitem(playlist_item, "owner"), "display_name"),
             Getitem(Getitem(playlist_item, "tracks"), "total"),
             IF detailed
               THEN ItemTrackList(Getitem(Getitem(playlist_item, "tracks"), "items"))
               ELSE NoneV)

\* [parse_playlist(p, username) for p in items]
PlaylistList(items, username) ==
  Comprehension(items,
    [i \in DOMAIN Elems(items) |-> parse_playlist(items.v[i], username, FALSE)])

(* Strings that the code takes apart are sequences of one-character strings. *)

\* s.split(sep) for a one-character sep: always at least one piece
RECURSIVE Split(_, _)
Split(s, sep) ==
  IF s = <<>> THEN << <<>> >>
  ELSE LET rest == Split(Tail(s), sep)
       IN IF Head(s) = sep
            THEN << <<>> >> \o rest
            ELSE << <<Head(s)>> \o Head(rest) >> \o Tail(rest)

\* sep.join(parts)
RECURSIVE Join(_, _)
Join(parts, sep) ==
  IF parts = <<>> THEN <<>>
  ELSE IF Len(parts) = 1 THEN Head(parts)
  ELSE Head(parts) \o <<sep>> \o Join(Tail(parts), sep)

track_ == <<"t", "r", "a", "c", "k">>

artist_ == <<"a", "r", "t", "i", "s", "t">>

album_ == <<"a", "l", "b", "u", "m">>

playlist_ == <<"p", "l", "a", "y", "l", "i", "s", "t">>

\* str.strip(): whitespace removed at both ends
Whitespace == {" ", "\t", "\n"}

RECURSIVE LStrip(_)
LStrip(s) ==
  IF s # <<>> /\ Head(s) \in Whitespace THEN LStrip(Tail(s)) ELSE s

RECURSIVE RStrip(_)
RStrip(s) ==
  IF s # <<>> /\ s[Len(s)] \in Whitespace THEN RStrip(SubSeq(s, 1, Len(s) - 1)) ELSE s

Strip(s) == RStrip(LStrip(s))

\* s.startswith(prefix)
StartsWith(s, prefix) ==
  Len(prefix) <= Len(s) /\ SubSeq(s, 1, Len(prefix)) = prefix

\* the string literals of main.py and client.py
now_ == <<"n", "o", "w">>

play_ == <<"p", "l", "a", "y">>

pause_ == <<"p", "a", "u", "s", "e">>

skip_ == <<"s", "k", "i", "p">>

prev_ == <<"p", "r", "e", "v">>

volume_ == <<"v", "o", "l", "u", "m", "e">>

devices_ == <<"d", "e", "v", "i", "c", "e", "s">>

queue_ == <<"q", "u", "e", "u", "e">>

search_ == <<"s", "e", "a", "r", "c", "h">>

info_ == <<"i", "n", "f", "o">>

playlists_ == <<"p", "l", "a", "y", "l", "i", "s", "t", "s">>

saved_ == <<"s", "a", "v", "e", "d">>

save_ == <<"s", "a", "v", "e">>

unsave_ == <<"u", "n", "s", "a", "v", "e">>

recent_ == <<"r", "e", "c", "e", "n", "t">>

top_ == <<"t", "o", "p">>

help_ == <<"h", "e", "l", "p">>

agent_ == <<"a", "g", "e", "n", "t">>

\* the sub-command words
Sub ==
  [ add |-> <<"a", "d", "d">>,
    remove |-> <<"r", "e", "m", "o", "v", "e">>,
    create |-> <<"c", "r", "e", "a", "t", "e">>,
    tracks |-> <<"t", "r", "a", "c", "k", "s">>,
    albums |-> <<"a", "l", "b", "u", "m", "s">>,
    artists |-> <<"a", "r", "t", "i", "s", "t", "s">> ]

short_ == <<"s", "h", "o", "r", "t">>

medium_ == <<"m", "e", "d", "i", "u", "m">>

long_ == <<"l", "o", "n", "g">>

spotify_ == <<"s", "p", "o", "t", "i", "f", "y">>

\* the flags
Flag ==
  [ help |-> <<"-", "-", "h", "e", "l", "p">>,
    h |-> <<"-", "h">>,
    json |-> <<"-", "-", "j", "s", "o", "n">>,
    type |-> <<"-", "-", "t", "y", "p", "e">>,
    limit |-> <<"-", "-", "l", "i", "m", "i", "t">>,
    range |-> <<"-", "-", "r", "a", "n", "g", "e">>,
    private |-> <<"-", "-", "p", "r", "i", "v", "a", "t", "e">>,
    desc |-> <<"-", "-", "d", "e", "s", "c">> ]

\* results[key]["items"]
BlockItems(results, key) == Getitem(Getitem(results, key), "items")

\* mutant: the key is created even when no item was appended
SearchCase_AlwaysKey(acc, key, parsed) ==
  IF IsRaise(parsed) THEN parsed
  ELSE IF key \in DOMAIN acc.v
    THEN Dict(SetItem(acc.v, key, List(acc.v[key].v \o parsed.v)))
    ELSE Dict(SetItem(acc.v, key, parsed))

\* one `case` of parse_search_results, parsed being the parsed non-null items
\* of the block: each is appended to _results[key], and a defaultdict creates
\* the key on its first append
SearchCase(acc, key, parsed) ==
  IF IsRaise(parsed) THEN parsed
  ELSE IF parsed.v = <<>> THEN acc
  ELSE IF key \in DOMAIN acc.v
    THEN Dict(SetItem(acc.v, key, List(acc.v[key].v \o parsed.v)))
    ELSE Dict(SetItem(acc.v, key, parsed))

\* the loop `for q in qtype.split(",")` from token list qs on, _results being acc
RECURSIVE SearchLoop(_, _, _, _)
SearchLoop(acc, results, qs, username) ==
  IF IsRaise(acc) \/ qs = <<>> THEN acc
  ELSE LET Step(q) ==
             CASE q = track_ ->
                    SearchCase(acc, "tracks",
                               TrackList(FilterTruthy(BlockItems(results, "tracks"))))
               [] q = artist_ ->
                    SearchCase(acc, "artists",
                               ParsedArtists(FilterTruthy(BlockItems(results, "artists"))))
               [] q = playlist_ ->
                    SearchCase(acc, "playlists",
                               PlaylistList(FilterTruthy(BlockItems(results, "playlists")),
                                            username))
               [] q = album_ ->
                    SearchCase(acc, "albums",
                               AlbumList(FilterTruthy(BlockItems(results, "albums"))))
               [] OTHER -> acc
       IN SearchLoop(Step(Head(qs)), results, Tail(qs), username)

\* mutant: a token that is no category is an error
parse_search_results_RejectsUnknown(results, qtype, username) ==
  IF \E i \in 1..Len(Split(qtype, ",")) :
       Split(qtype, ",")[i] \notin {track_, artist_, album_, playlist_}
  THEN Raise("ValueError")
  ELSE SearchLoop(EmptyDict, results, Split(qtype, ","), username)

parse_search_results(results, qtype, username) ==
  SearchLoop(EmptyDict, results, Split(qtype, ","), username)

-----------------------------------------------------------------------------
(* client.py: what each method does with the payload the remote call returned. *)

now_playing(current) ==
  IF ~Truthy(current) THEN NoneV
  ELSE IF Get(current, "currently_playing_type", NoneV) # Str("track") THEN NoneV
  ELSE LET WithPlaying(track) ==
             IF IsRaise(track) THEN track
             ELSE IF track.t # "dict" THEN Raise("TypeError")
             ELSE Dict(SetItem(track.v, "is_playing",
                               Get(current, "is_playing", Bool(FALSE))))
       IN WithPlaying(parse_track(Getitem(current, "item"), FALSE))

\* [x for x in items if x.get(key)]: a non-list or a non-dict element raises
WithKey(items, key) ==
  IF IsRaise(items) THEN items
  ELSE IF items.t # "list" THEN Raise("TypeError")
  ELSE IF \E i \in 1..Len(items.v) : IsRaise(Get(items.v[i], key, NoneV))
    THEN Raise("AttributeError")
  ELSE List(SelectSeq(items.v, LAMBDA e : Truthy(Get(e, key, NoneV))))

\* [parse_track(item["track"]) for item in results["items"] if item.get("track")]
ItemTracks(results) == ItemTrackList(WithKey(Getitem(results, "items"), "track"))

playlist_tracks(results) == ItemTracks(results)

saved_tracks(results) == ItemTracks(results)

recent(results) == ItemTracks(results)

\* [parse_album(item["album"]) for item in results["items"] if item.get("album")]
saved_albums(results) ==
  LET Albums(kept) ==
        Comprehension(kept,
          [i \in DOMAIN Elems(kept) |-> parse_album(kept.v[i].v["album"], FALSE)])
  IN Albums(WithKey(Getitem(results, "items"), "album"))

\* [parse_track(t) for t in results["items"]]
top_tracks(results) == TrackList(Getitem(results, "items"))

\* [parse_artist(a) for a in results["items"]]
top_artists(results) == ParsedArtists(Getitem(results, "items"))

\* [parse_playlist(p, username) for p in results["items"]]
playlists(results, username) == PlaylistList(Getitem(results, "items"), username)

\* sp.current_user()["display_name"]
_get_username(user) == Getitem(user, "display_name")

\* mutant: the first device is picked whether it is active or not
_get_device_id_First(payload) ==
  IF ~Truthy(Get(payload, "devices", List(<<>>))) THEN NoneV
  ELSE Getitem(Get(payload, "devices", List(<<>>)).v[1], "id")

\* the device _get_device_id picks from the payload of sp.devices()
_get_device_id(payload) ==
  LET Pick(devices) ==
        IF IsRaise(devices) THEN devices
        ELSE IF ~Truthy(devices) THEN NoneV
        ELSE LET active == {i \in 1..Len(devices.v) :
                              Truthy(Get(devices.v[i], "is_active", NoneV))}
             IN IF active # {}
                  THEN Getitem(devices.v[CHOOSE i \in active : \A j \in active : i <= j],
                               "id")
                  ELSE Getitem(devices.v[1], "id")
  IN Pick(Get(payload, "devices", List(<<>>)))

\* get_queue, q being the payload of sp.queue()
get_queue(q) ==
  LET Current(cp) ==
        IF IsRaise(cp) THEN cp ELSE IF Truthy(cp) THEN parse_track(cp, FALSE) ELSE NoneV
      Build(current, queue) ==
        OrRaise(<<current, queue>>, Dict([currently_playing |-> current, queue |-> queue]))
  IN Build(Current(Get(q, "currently_playing", NoneV)),
           TrackList(Get(q, "queue", List(<<>>))))

\* the artist branch of info: the parsed artist with its top tracks and albums
InfoArtist(artist_payload, top_payload, albums_payload) ==
  LET Build(artist, top_tracks_, albums) ==
        IF AnyRaise(<<artist, top_tracks_>>) THEN FirstRaise(<<artist, top_tracks_>>)
        ELSE IF artist.t # "dict" THEN Raise("TypeError")
        ELSE IF IsRaise(albums) THEN albums
        ELSE Dict(("albums" :> albums) @@ ("top_tracks" :> top_tracks_) @@ artist.v)
  IN Build(parse_artist(artist_payload, TRUE),
           TrackList(Getitem(top_payload, "tracks")),
           AlbumList(Getitem(albums_payload, "items")))

-----------------------------------------------------------------------------
(* main.py: argument helpers. *)

\* mutant: an empty token is kept
_parse_ids_KeepEmpty(s) ==
  LET parts == Split(s, ",")
  IN [i \in DOMAIN parts |-> Strip(parts[i])]

_parse_ids(s) ==
  LET parts == Split(s, ",")
      kept == SelectSeq(parts, LAMBDA x : Strip(x) # <<>>)
  IN [i \in DOMAIN kept |-> Strip(kept[i])]

\* args.index(flag), 1-based: the first position holding flag
Index(args, flag) ==
  CHOOSE i \in 1..Len(args) :
    args[i] = flag /\ \A j \in 1..(i - 1) : args[j] # flag

\* args.pop(idx), 1-based: the list without that position
Pop(args, idx) == SubSeq(args, 1, idx - 1) \o SubSeq(args, idx + 1, Len(args))

\* mutant: the value token is left in the list
_get_flag_KeepsValue(args, flag, default) ==
  IF \E i \in 1..Len(args) : args[i] = flag
    THEN LET idx == Index(args, flag)
         IN IF idx + 1 <= Len(args)
              THEN [val |-> args[idx + 1], args |-> Pop(args, idx)]
              ELSE [val |-> default, args |-> Pop(args, idx)]
    ELSE [val |-> default, args |-> args]

\* _get_flag mutates args and returns the value: val is what it returns, args
\* the list afterwards
_get_flag(args, flag, default) ==
  IF \E i \in 1..Len(args) : args[i] = flag
    THEN LET idx == Index(args, flag)
         IN IF idx + 1 <= Len(args)
              THEN [val |-> args[idx + 1], args |-> Pop(Pop(args, idx), idx)]
              ELSE [val |-> default, args |-> Pop(args, idx)]
    ELSE [val |-> default, args |-> args]

\* int(s): surrounding whitespace and one sign are accepted, then digits only
Digits == {"0", "1", "2", "3", "4", "5", "6", "7", "8", "9"}

DigitValue(c) ==
  CASE c = "0" -> 0 [] c = "1" -> 1 [] c = "2" -> 2 [] c = "3" -> 3 [] c = "4" -> 4
    [] c = "5" -> 5 [] c = "6" -> 6 [] c = "7" -> 7 [] c = "8" -> 8 [] c = "9" -> 9

\* s without a leading sign
Unsigned(s) ==
  IF s # <<>> /\ Head(s) \in {"+", "-"} THEN Tail(s) ELSE s

\* int(s) does not raise ValueError
IsInt(s) ==
  LET d == Unsigned(Strip(s))
  IN d # <<>> /\ \A i \in 1..Len(d) : d[i] \in Digits

RECURSIVE NatOf(_)
NatOf(d) ==
  IF d = <<>> THEN 0
  ELSE 10 * NatOf(SubSeq(d, 1, Len(d) - 1)) + DigitValue(d[Len(d)])

\* int(s), for s with IsInt(s)
IntOf(s) ==
  LET t == Strip(s)
  IN IF Head(t) = "-" THEN 0 - NatOf(Unsigned(t)) ELSE NatOf(Unsigned(t))

\* TIME_RANGE_MAP.get(time_range, "<<"m", "e", "d", "i", "u", "m", "_", "t", "e", "r", "m">>")
TIME_RANGE_MAP(time_range) ==
  CASE time_range = short_ -> <<"s", "h", "o", "r", "t", "_", "t", "e", "r", "m">>
    [] time_range = medium_ -> <<"m", "e", "d", "i", "u", "m", "_", "t", "e", "r", "m">>
    [] time_range = long_ -> <<"l", "o", "n", "g", "_", "t", "e", "r", "m">>
    [] OTHER -> <<"m", "e", "d", "i", "u", "m", "_", "t", "e", "r", "m">>

\* list.remove(x): the list without the first occurrence of x
Remove(args, x) == Pop(args, Index(args, x))

\* x in args
In(x, args) == \E i \in 1..Len(args) : args[i] = x

-----------------------------------------------------------------------------
(* main.py: _dispatch up to its call into client.py.  The result says how   *)
(* the command line resolved: Exit (a message on stderr, then sys.exit(1)), *)
(* Raises (an exception before any client call) or Call (the client         *)
(* function to run, with its arguments).                                    *)

\* print(f"{prefix}{text}", file=sys.stderr) with the values formatted into it
ErrLine(prefix, text, args) == [prefix |-> prefix, text |-> text, args |-> args]

Exit(line) == [kind |-> "exit", stderr |-> line]

Raises(exc) == [kind |-> "raise", exc |-> exc]

Call(op, params) == [kind |-> "call", op |-> op, p |-> params]

Usage(text) == Exit(ErrLine("Usage: ", text, <<>>))

\* `sp playlist create "<name>" [--private] [--desc "..."]`, args[0] being create
DispatchPlaylistCreate(args) ==
  IF Len(args) < 2
    THEN Usage("sp playlist create \"<name>\" [--private] [--desc \"...\"]")
    ELSE LET sub_args == Tail(args)
             is_private == In(Flag.private, sub_args)
             rest == IF is_private THEN Remove(sub_args, Flag.private) ELSE sub_args
             desc == _get_flag(rest, Flag.desc, <<>>)
         IN Call("playlist_create",
                 [name |-> Join(desc.args, " "), public |-> ~is_private,
                  description |-> desc.val])

\* case "playlist"; `playlist <id> create ...` dispatches again with
\* ["create"] + args[2:]
RECURSIVE DispatchPlaylist(_)
DispatchPlaylist(args) ==
  IF args = <<>> THEN Usage("sp playlist <id> [add|remove <ids>]")
  ELSE IF Len(args) >= 2 /\ args[2] = Sub.create
    THEN DispatchPlaylist(<<Sub.create>> \o SubSeq(args, 3, Len(args)))
  ELSE IF Len(args) >= 3 /\ args[2] = Sub.add
    THEN Call("playlist_add", [playlist_id |-> args[1], track_ids |-> _parse_ids(args[3])])
  ELSE IF Len(args) >= 3 /\ args[2] = Sub.remove
    THEN Call("playlist_remove",
              [playlist_id |-> args[1], track_ids |-> _parse_ids(args[3])])
  ELSE IF args[1] = Sub.create THEN DispatchPlaylistCreate(args)
  ELSE Call("playlist_tracks", [playlist_id |-> args[1]])

\* case "search"
DispatchSearch(args) ==
  IF args = <<>> THEN Usage("sp search <query> [--type TYPE] [--limit N]")
  ELSE LET qtype == _get_flag(args, Flag.type, track_)
           limit == _get_flag(qtype.args, Flag.limit, <<"1", "0">>)
       IN IF ~IsInt(limit.val) THEN Raises("ValueError")
          ELSE Call("search", [query |-> Join(limit.args, " "), qtype |-> qtype.val,
                               limit |-> IntOf(limit.val)])

\* case "saved"
DispatchSaved(args) ==
  IF args = <<>> THEN Usage("sp saved tracks|albums [--limit N]")
  ELSE LET sub == Head(args)
           limit == _get_flag(Tail(args), Flag.limit, <<"2", "0">>)
       IN IF ~IsInt(limit.val) THEN Raises("ValueError")
          ELSE IF sub = Sub.tracks THEN Call("saved_tracks", [limit |-> IntOf(limit.val)])
          ELSE IF sub = Sub.albums THEN Call("saved_albums", [limit |-> IntOf(limit.val)])
          ELSE Exit(ErrLine("Unknown: ", "sp saved {}. Use 'tracks' or 'albums'.", <<sub>>))

\* case "save" and case "unsave": verb is "save" or "unsave"
DispatchSave(verb, args) ==
  IF Len(args) < 2 THEN Usage("sp " \o verb \o " track|album <ids>")
  ELSE LET sub == args[1]
           ids == _parse_ids(args[2])
       IN IF sub = track_ THEN Call(verb \o "_tracks", [ids |-> ids])
          ELSE IF sub = album_ THEN Call(verb \o "_albums", [ids |-> ids])
          ELSE Exit(ErrLine("Unknown: ", "sp " \o verb \o " {}. Use 'track' or 'album'.",
                            <<sub>>))

\* case "top"
DispatchTop(args) ==
  IF args = <<>> THEN Usage("sp top tracks|artists [--range short|medium|long] [--limit N]")
  ELSE LET sub == Head(args)
           time_range == _get_flag(Tail(args), Flag.range, medium_)
           limit == _get_flag(time_range.args, Flag.limit, <<"2", "0">>)
           p == [time_range |-> TIME_RANGE_MAP(time_range.val), limit |-> IntOf(limit.val)]
       IN IF ~IsInt(limit.val) THEN Raises("ValueError")
          ELSE IF sub = Sub.tracks THEN Call("top_tracks", p)
          ELSE IF sub = Sub.artists THEN Call("top_artists", p)
          ELSE Exit(ErrLine("Unknown: ", "sp top {}. Use 'tracks' or 'artists'.", <<sub>>))

_dispatch(cmd, args) ==
  CASE cmd = now_ -> Call("now_playing", <<>>)
    [] cmd = play_ ->
         Call("play", [uri |-> IF args # <<>> THEN Chars(args[1]) ELSE NoneV])
    [] cmd = pause_ -> Call("pause", <<>>)
    [] cmd = skip_ ->
         IF args = <<>> THEN Call("skip", [n |-> 1])
         ELSE IF IsInt(args[1]) THEN Call("skip", [n |-> IntOf(args[1])])
         ELSE Raises("ValueError")
    [] cmd = prev_ -> Call("prev", <<>>)
    [] cmd = volume_ ->
         IF args = <<>> THEN Usage("sp volume <0-100>")
         ELSE IF IsInt(args[1]) THEN Call("volume", [level |-> IntOf(args[1])])
         ELSE Raises("ValueError")
    [] cmd = devices_ -> Call("devices", <<>>)
    [] cmd = queue_ ->
         IF args # <<>> /\ args[1] = Sub.add
           THEN IF Len(args) < 2 THEN Usage("sp queue add <uri>")
                ELSE Call("queue_add", [uri |-> args[2]])
           ELSE Call("get_queue", <<>>)
    [] cmd = search_ -> DispatchSearch(args)
    [] cmd = info_ ->
         IF args = <<>> THEN Usage("sp info <spotify:type:id>")
         ELSE Call("info", [uri |-> args[1]])
    [] cmd = playlists_ ->
         LET limit == _get_flag(args, Flag.limit, <<"5", "0">>)
         IN IF IsInt(limit.val) THEN Call("playlists", [limit |-> IntOf(limit.val)])
            ELSE Raises("ValueError")
    [] cmd = playlist_ -> DispatchPlaylist(args)
    [] cmd = saved_ -> DispatchSaved(args)
    [] cmd = save_ -> DispatchSave("save", args)
    [] cmd = unsave_ -> DispatchSave("unsave", args)
    [] cmd = recent_ ->
         LET limit == _get_flag(args, Flag.limit, <<"2", "0">>)
         IN IF IsInt(limit.val) THEN Call("recent", [limit |-> IntOf(limit.val)])
            ELSE Raises("ValueError")
    [] cmd = top_ -> DispatchTop(args)
    [] OTHER -> Exit(ErrLine("Unknown command: ", "{}. Run 'sp help' for usage.", <<cmd>>))

-----------------------------------------------------------------------------
(* client.py as a sequence of remote calls: o is the Call that _dispatch    *)
(* resolved, resp the payloads the remote calls made so far returned.       *)

\* one call of a spotipy method, with its arguments
RCall(api, kw) == [api |-> api, kw |-> kw]

NoCall == [api |-> "none"]

\* "spotify:track:"
TrackUriPrefix == spotify_ \o <<":">> \o track_ \o <<":">>

\* mutant: the device lookup is tried again before the playback call
NextCallPlayback_Retries(o, resp) ==
  IF Len(resp) < 2 THEN RCall("devices", <<>>)
  ELSE IF Len(resp) = 2 THEN RCall("pause_playback", <<>>)
  ELSE NoCall

\* the remote calls of play(uri) and pause()
NextCallPlayback(o, resp) ==
  IF resp = <<>> THEN RCall("devices", <<>>)
  ELSE IF Len(resp) > 1 \/ IsRaise(_get_device_id(resp[1])) THEN NoCall
  ELSE LET device_id == _get_device_id(resp[1])
       IN IF o.op = "pause" THEN RCall("pause_playback", [device_id |-> device_id])
          ELSE IF ~Truthy(o.p.uri)
            THEN RCall("start_playback", [device_id |-> device_id])
          ELSE IF StartsWith(o.p.uri.v, TrackUriPrefix)
            THEN RCall("start_playback", [uris |-> <<o.p.uri.v>>, device_id |-> device_id])
          ELSE RCall("start_playback",
                     [context_uri |-> o.p.uri.v, device_id |-> device_id])

\* mutant: info fetches the item before it looks at the URI
NextCallInfo_CallsFirst(o, resp) ==
  IF resp = <<>> THEN RCall("track", [id |-> o.p.uri]) ELSE NoCall

\* the remote calls of info(uri)
NextCallInfo(o, resp) ==
  LET parts == Split(o.p.uri, ":")
      qtype == parts[2]
      item_id == parts[3]
      k == Len(resp)
  IN IF Len(parts) # 3 THEN NoCall
     ELSE IF qtype = track_ THEN (IF k = 0 THEN RCall("track", [id |-> item_id]) ELSE NoCall)
     ELSE IF qtype = album_ THEN (IF k = 0 THEN RCall("album", [id |-> item_id]) ELSE NoCall)
     ELSE IF qtype = artist_
       THEN IF k = 0 THEN RCall("artist", [id |-> item_id])
            ELSE IF k = 1 /\ ~IsRaise(parse_artist(resp[1], TRUE))
              THEN RCall("artist_top_tracks", [id |-> item_id])
            ELSE IF k = 2 /\ ~IsRaise(Getitem(resp[2], "tracks"))
              THEN RCall("artist_albums", [id |-> item_id])
            ELSE NoCall
     ELSE IF qtype = playlist_
       THEN IF k = 0 THEN RCall("current_user", <<>>)
            ELSE IF k = 1 /\ ~IsRaise(_get_username(resp[1]))
              THEN RCall("playlist", [id |-> item_id])
            ELSE NoCall
     ELSE NoCall

\* the next remote call the client function makes, NoCall when it has returned
\* or raised
NextCall(o, resp) ==
  LET k == Len(resp)
      Once(c) == IF k = 0 THEN c ELSE NoCall
  IN CASE o.op = "now_playing" -> Once(RCall("current_user_playing_track", <<>>))
       [] o.op \in {"play", "pause"} -> NextCallPlayback(o, resp)
       [] o.op = "skip" -> IF k < o.p.n THEN RCall("next_track", <<>>) ELSE NoCall
       [] o.op = "prev" -> Once(RCall("previous_track", <<>>))
       [] o.op = "volume" -> Once(RCall("volume", [level |-> o.p.level]))
       [] o.op = "devices" -> Once(RCall("devices", <<>>))
       [] o.op = "get_queue" -> Once(RCall("queue", <<>>))
       [] o.op = "queue_add" -> Once(RCall("add_to_queue", [uri |-> o.p.uri]))
       [] o.op = "search" ->
            IF k = 0 THEN RCall("current_user", <<>>)
            ELSE IF k = 1 /\ ~IsRaise(_get_username(resp[1]))
              THEN RCall("search", [q |-> o.p.query, type |-> o.p.qtype, limit |-> o.p.limit])
            ELSE NoCall
       [] o.op = "info" -> NextCallInfo(o, resp)
       [] o.op = "playlists" ->
            IF k = 0 THEN RCall("current_user", <<>>)
            ELSE IF k = 1 /\ ~IsRaise(_get_username(resp[1]))
              THEN RCall("current_user_playlists", [limit |-> o.p.limit])
            ELSE NoCall
       [] o.op = "playlist_tracks" ->
            Once(RCall("playlist_items", [playlist_id |-> o.p.playlist_id, limit |-> 100]))
       [] o.op = "playlist_add" ->
            Once(RCall("playlist_add_items",
                       [playlist_id |-> o.p.playlist_id, items |-> o.p.track_ids]))
       [] o.op = "playlist_remove" ->
            Once(RCall("playlist_remove_all_occurrences_of_items",
                       [playlist_id |-> o.p.playlist_id, items |-> o.p.track_ids]))
       [] o.op = "playlist_create" ->
            IF k = 0 THEN RCall("current_user", <<>>)
            ELSE IF k = 1 /\ ~IsRaise(Getitem(resp[1], "id"))
              THEN RCall("current_user", <<>>)
            ELSE IF k = 2 /\ ~IsRaise(_get_username(resp[2]))
              THEN RCall("user_playlist_create",
                         [user |-> Getitem(resp[1], "id"), name |-> o.p.name,
                          public |-> o.p.public, description |-> o.p.description])
            ELSE NoCall
       [] o.op = "saved_tracks" ->
            Once(RCall("current_user_saved_tracks", [limit |-> o.p.limit]))
       [] o.op = "saved_albums" ->
            Once(RCall("current_user_saved_albums", [limit |-> o.p.limit]))
       [] o.op = "save_tracks" ->
            Once(RCall("current_user_saved_tracks_add", [tracks |-> o.p.ids]))
       [] o.op = "save_albums" ->
            Once(RCall("current_user_saved_albums_add", [albums |-> o.p.ids]))
       [] o.op = "unsave_tracks" ->
            Once(RCall("current_user_saved_tracks_delete", [tracks |-> o.p.ids]))
       [] o.op = "unsave_albums" ->
            Once(RCall("current_user_saved_albums_delete", [albums |-> o.p.ids]))
       [] o.op = "recent" ->
            Once(RCall("current_user_recently_played", [limit |-> o.p.limit]))
       [] o.op = "top_tracks" ->
            Once(RCall("current_user_top_tracks",
                       [limit |-> o.p.limit, time_range |-> o.p.time_range]))
       [] o.op = "top_artists" ->
            Once(RCall("current_user_top_artists",
                       [limit |-> o.p.limit, time_range |-> o.p.time_range]))

\* what info(uri) returns or raises once its remote calls are made
ResultInfo(o, resp) ==
  LET parts == Split(o.p.uri, ":")
      qtype == parts[2]
  IN IF Len(parts) # 3 THEN Raise("ValueError: Invalid URI")
     ELSE IF qtype = track_ THEN parse_track(resp[1], TRUE)
     ELSE IF qtype = album_ THEN parse_album(resp[1], TRUE)
     ELSE IF qtype = artist_
       THEN IF Len(resp) = 1 THEN parse_artist(resp[1], TRUE)
            ELSE IF Len(resp) = 2 THEN Getitem(resp[2], "tracks")
            ELSE InfoArtist(resp[1], resp[2], resp[3])
     ELSE IF qtype = playlist_
       THEN IF Len(resp) = 1 THEN _get_username(resp[1])
            ELSE parse_playlist(resp[2], _get_username(resp[1]), TRUE)
     ELSE Raise("ValueError: Unknown type")

\* what the client function returns or raises once NextCall is NoCall
ClientResult(o, resp) ==
  CASE o.op = "now_playing" -> now_playing(resp[1])
    [] o.op \in {"play", "pause"} ->
         IF Len(resp) = 1 THEN _get_device_id(resp[1]) ELSE NoneV
    [] o.op = "devices" -> Get(resp[1], "devices", List(<<>>))
    [] o.op = "get_queue" -> get_queue(resp[1])
    [] o.op = "search" ->
         IF Len(resp) = 1 THEN _get_username(resp[1])
         ELSE parse_search_results(resp[2], o.p.qtype, _get_username(resp[1]))
    [] o.op = "info" -> ResultInfo(o, resp)
    [] o.op = "playlists" ->
         IF Len(resp) = 1 THEN _get_username(resp[1])
         ELSE playlists(resp[2], _get_username(resp[1]))
    [] o.op = "playlist_tracks" -> playlist_tracks(resp[1])
    [] o.op = "playlist_create" ->
         IF Len(resp) = 1 THEN Getitem(resp[1], "id")
         ELSE IF Len(resp) = 2 THEN _get_username(resp[2])
         ELSE parse_playlist(resp[3], _get_username(resp[2]), TRUE)
    [] o.op = "saved_tracks" -> saved_tracks(resp[1])
    [] o.op = "saved_albums" -> saved_albums(resp[1])
    [] o.op = "recent" -> recent(resp[1])
    [] o.op = "top_tracks" -> top_tracks(resp[1])
    [] o.op = "top_artists" -> top_artists(resp[1])
    [] OTHER -> NoneV

-----------------------------------------------------------------------------
(* Provider payloads the normalizer is applied to. *)

\* all sequences over S of length at most n
SeqsUpTo(S, n) == UNION {[1..k -> S] : k \in 0..n}

Artist1 == Dict([name |-> Str("Ann"), id |-> Str("a1")])

Artist2 == Dict([name |-> Str("Bob"), id |-> Str("a2")])

\* an artist object without its name
ArtistNoName == Dict([id |-> Str("a3")])

ArtistLists ==
  {List(s) : s \in SeqsUpTo({Artist1, Artist2}, MaxArtists)}
    \cup {NoneV, List(<<NoneV>>), List(<<Artist1, ArtistNoName>>)}

\* a dict holding the keys K of the full dict f
Restrict(f, K) == [k \in K |-> f[k]]

Album1 == Dict([name |-> Str("LP"), id |-> Str("l1"), artists |-> List(<<Artist1>>)])

TrackExtras ==
  { <<>>,
    [is_playing |-> Bool(TRUE)],
    [is_playable |-> Bool(FALSE)],
    [album |-> Album1, track_number |-> IntV(1), duration_ms |-> IntV(1000)] }

TrackItems ==
  {NoneV, EmptyDict} \cup
  { Dict(Restrict([name |-> Str("Song"), id |-> Str("t1"), artists |-> as], K) @@ x) :
      K \in SUBSET {"name", "id", "artists"}, as \in ArtistLists, x \in TrackExtras }

Track1 == Dict([name |-> Str("Song"), id |-> Str("t1"), artists |-> List(<<Artist1>>)])

Track2 ==
  Dict([name |-> Str("Duet"), id |-> Str("t2"), artists |-> List(<<Artist2, Artist1>>)])

\* a track without its name
TrackNoName == Dict([id |-> Str("t3"), artists |-> List(<<Artist1>>)])

AlbumExtras ==
  { <<>>,
    [tracks |-> Dict([items |-> List(<<Track1, Track2>>)]), total_tracks |-> IntV(2),
     release_date |-> Str("2020")],
    [tracks |-> Dict([items |-> List(<<NoneV, Track1>>)])] }

AlbumItems ==
  {NoneV, EmptyDict} \cup
  { Dict(Restrict([name |-> Str("LP"), id |-> Str("l1"), artists |-> as], K) @@ x) :
      K \in SUBSET {"name", "id", "artists"}, as \in ArtistLists, x \in AlbumExtras }

Album2 ==
  Dict([name |-> Str("EP"), id |-> Str("l2"), artists |-> List(<<Artist2, Artist1>>)])

PlaylistOf(o, items) ==
  Dict([name |-> Str("Mix"), id |-> Str("p1"), owner |-> Dict([display_name |-> o]),
        tracks |-> Dict([total |-> IntV(Len(items)), items |-> List(items)])])

\* the entries of a playlist's item list: a track, a removed track, no track key
PlaylistEntries ==
  { Dict([track |-> Track1]), Dict([track |-> Track2]), Dict([track |-> NoneV]),
    Dict([added_at |-> Str("2020")]) }

PlaylistItemLists == SeqsUpTo(PlaylistEntries, MaxItems)

Owners == {Str("me"), Str("Me")}

Usernames == {NoneV, Str(""), Str("me"), Str("ME")}

PlaylistItems ==
  {NoneV, EmptyDict} \cup
  {PlaylistOf(o, items) : o \in Owners, items \in PlaylistItemLists}

CurrentlyPlaying ==
  {NoneV, EmptyDict} \cup
  { Dict(Restrict([currently_playing_type |-> Str(ty), item |-> it, is_playing |-> Bool(pl)],
                  K)) :
      ty \in {"track", "episode"}, it \in {NoneV, Track1, Track2, TrackNoName},
      pl \in BOOLEAN,
      K \in {{"currently_playing_type", "item", "is_playing"},
             {"currently_playing_type", "item"}, {"item", "is_playing"},
             {"currently_playing_type"}} }

\* what the provider may return for one category: no block at all, no match,
\* only a null item, or matches with a null item among them
BlockChoices(x, y) ==
  { <<>>,
    [b |-> Dict([items |-> List(<<>>)])],
    [b |-> Dict([items |-> List(<<NoneV>>)])],
    [b |-> Dict([items |-> List(<<x, NoneV, y>>)])] }

\* the dict {key: c.b} when the block is there, {} when it is not
BlockDict(key, c) == IF c = <<>> THEN <<>> ELSE (key :> c.b)

SearchPayloads ==
  { Dict(BlockDict("tracks", t) @@ BlockDict("artists", a)
           @@ BlockDict("albums", l) @@ BlockDict("playlists", p)) :
      t \in BlockChoices(Track1, Track2), a \in BlockChoices(Artist1, Artist2),
      l \in BlockChoices(Album1, Album2),
      p \in BlockChoices(PlaylistOf(Str("me"), <<>>), PlaylistOf(Str("Me"), <<>>)) }

\* category tokens: the four the code knows, a plural, and the empty token
TypeTokens == {track_, artist_, album_, playlist_, track_ \o <<"s">>, <<>>}

\* the category lists a caller may ask for; the code receives them joined by ","
TypeLists == SeqsUpTo(TypeTokens, MaxTypes)

-----------------------------------------------------------------------------
(* One pure function applied to one input: fn is the function called, inp   *)
(* its arguments, out what it returned or raised.                           *)

Idle == [idle |-> TRUE]

\* the ID arguments: every string of commas, blanks and two letters
IdStrings == SeqsUpTo({"a", "b", " ", ","}, MaxIdLen)

\* no process is running
CliOff ==
  /\ argv = <<>>
  /\ pc = "off"
  /\ json_mode = FALSE
  /\ command = <<>>
  /\ cmd_args = <<>>
  /\ plan = Idle
  /\ calls = <<>>
  /\ returned = <<>>
  /\ stdout = <<>>
  /\ stderr = <<>>
  /\ exit_code = 0

InitPure ==
  /\ fn = "idle"
  /\ inp = Idle
  /\ out = Idle
  /\ CliOff

CallParseTrack ==
  /\ fn = "idle"
  /\ \E item \in TrackItems, detailed \in BOOLEAN :
       /\ fn' = "parse_track"
       /\ inp' = [item |-> item, detailed |-> detailed]
       /\ out' = parse_track(item, detailed)
  /\ UNCHANGED cliVars

CallParseArtist ==
  /\ fn = "idle"
  /\ \E item \in {NoneV, EmptyDict, Artist1, Artist2, ArtistNoName,
                  Dict([name |-> Str("Cy"), id |-> Str("a4"),
                        genres |-> List(<<Str("pop")>>),
                        followers |-> Dict([total |-> IntV(7)]),
                        popularity |-> IntV(50)])},
        detailed \in BOOLEAN :
       /\ fn' = "parse_artist"
       /\ inp' = [item |-> item, detailed |-> detailed]
       /\ out' = parse_artist(item, detailed)
  /\ UNCHANGED cliVars

CallParseAlbum ==
  /\ fn = "idle"
  /\ \E item \in AlbumItems, detailed \in BOOLEAN :
       /\ fn' = "parse_album"
       /\ inp' = [item |-> item, detailed |-> detailed]
       /\ out' = parse_album(item, detailed)
  /\ UNCHANGED cliVars

CallParsePlaylist ==
  /\ fn = "idle"
  /\ \E item \in PlaylistItems, username \in Usernames, detailed \in BOOLEAN :
       /\ fn' = "parse_playlist"
       /\ inp' = [item |-> item, username |-> username, detailed |-> detailed]
       /\ out' = parse_playlist(item, username, detailed)
  /\ UNCHANGED cliVars

CallPlaylistTracks ==
  /\ fn = "idle"
  /\ \E items \in PlaylistItemLists :
       /\ fn' = "playlist_tracks"
       /\ inp' = [results |-> Dict([items |-> List(items)])]
       /\ out' = playlist_tracks(inp'.results)
  /\ UNCHANGED cliVars

CallNowPlaying ==
  /\ fn = "idle"
  /\ \E current \in CurrentlyPlaying :
       /\ fn' = "now_playing"
       /\ inp' = [current |-> current]
       /\ out' = now_playing(current)
  /\ UNCHANGED cliVars

CallParseSearchResults ==
  /\ fn = "idle"
  /\ \E results \in SearchPayloads, types \in TypeLists :
       /\ fn' = "parse_search_results"
       /\ inp' = [results |-> results, types |-> types, qtype |-> Join(types, ","),
                  username |-> Str("me")]
       /\ out' = parse_search_results(results, Join(types, ","), Str("me"))
  /\ UNCHANGED cliVars

CallGetFlag ==
  /\ fn = "idle"
  /\ \E a \in SeqsUpTo({Flag.limit, Flag.type, <<"5">>, <<"f", "o", "o">>}, MaxArgs),
        flag \in {Flag.limit, Flag.type}, default \in {<<"1", "0">>, <<>>} :
       /\ fn' = "_get_flag"
       /\ inp' = [args |-> a, flag |-> flag, default |-> default]
       /\ out' = _get_flag(a, flag, default)
  /\ UNCHANGED cliVars

CallParseIds ==
  /\ fn = "idle"
  /\ \E s \in IdStrings :
       /\ fn' = "_parse_ids"
       /\ inp' = [s |-> s]
       /\ out' = _parse_ids(s)
  /\ UNCHANGED cliVars

NextPure ==
  \/ CallParseTrack
  \/ CallParseArtist
  \/ CallParseAlbum
  \/ CallParsePlaylist
  \/ CallPlaylistTracks
  \/ CallNowPlaying
  \/ CallParseSearchResults
  \/ CallGetFlag
  \/ CallParseIds

SpecPure == InitPure /\ [][NextPure]_vars

-----------------------------------------------------------------------------
(* main.py: what a successful command prints. *)

\* print(<fixed text with the values formatted into it>)
Line(fmt, values) == [fmt |-> fmt, values |-> values]

\* print(formatters.as_json(data))
Json(data) == [json |-> data]

\* print(<text built by the formatter from data>)
Text(formatter, data) == [formatter |-> formatter, data |-> data]

\* one print per element of the list, by the formatter
TextEach(formatter, list) ==
  [i \in DOMAIN list.v |-> Text(formatter, list.v[i])]

\* the `match uri_type` of case "info"
InfoText(uri, result) ==
  LET uri_type == IF In(":", uri) THEN Split(uri, ":")[2] ELSE <<>>
  IN IF uri_type = artist_ THEN Text("format_artist_info", result)
     ELSE IF uri_type = playlist_ THEN Text("format_playlist_detail", result)
     ELSE IF uri_type = album_ THEN Text("format_album+format_track", result)
     ELSE Text("format_track", result)

\* mutant: every command honours --json
Output_HonoursJson(o, result, use_json) ==
  IF use_json THEN <<Json(result)>> ELSE <<Text("format", result)>>

\* what _dispatch prints on stdout after the client function returned result
Output(o, result, use_json) ==
  LET Read(text) == IF use_json THEN <<Json(result)>> ELSE text
  IN CASE o.op = "now_playing" -> Read(<<Text("format_now_playing", result)>>)
       [] o.op = "play" ->
            <<Line(IF Truthy(o.p.uri) THEN "Playing." ELSE "Resumed.", <<>>)>>
       [] o.op = "pause" -> <<Line("Paused.", <<>>)>>
       [] o.op = "skip" -> <<Line("Skipped {} track(s).", <<o.p.n>>)>>
       [] o.op = "prev" -> <<Line("Previous track.", <<>>)>>
       [] o.op = "volume" -> <<Line("Volume: {}%", <<o.p.level>>)>>
       [] o.op = "devices" ->
            Read(IF ~Truthy(result) THEN <<Line("No devices found.", <<>>)>>
                 ELSE TextEach("format_device", result))
       [] o.op = "queue_add" -> <<Line("Added to queue.", <<>>)>>
       [] o.op = "get_queue" -> Read(<<Text("format_queue", result)>>)
       [] o.op = "search" -> Read(<<Text("format_search_results", result)>>)
       [] o.op = "info" -> Read(<<InfoText(o.p.uri, result)>>)
       [] o.op = "playlists" -> Read(TextEach("format_playlist", result))
       [] o.op = "playlist_add" ->
            <<Line("Added {} track(s).", <<Len(o.p.track_ids)>>)>>
       [] o.op = "playlist_remove" ->
            <<Line("Removed {} track(s).", <<Len(o.p.track_ids)>>)>>
       [] o.op = "playlist_create" -> Read(<<Text("Created: format_playlist", result)>>)
       [] o.op = "playlist_tracks" -> Read(<<Text("format_track_list", result)>>)
       [] o.op = "saved_tracks" -> Read(<<Text("format_track_list", result)>>)
       [] o.op = "saved_albums" -> Read(TextEach("format_album", result))
       [] o.op = "save_tracks" -> <<Line("Saved {} track(s).", <<Len(o.p.ids)>>)>>
       [] o.op = "save_albums" -> <<Line("Saved {} album(s).", <<Len(o.p.ids)>>)>>
       [] o.op = "unsave_tracks" -> <<Line("Removed {} track(s).", <<Len(o.p.ids)>>)>>
       [] o.op = "unsave_albums" -> <<Line("Removed {} album(s).", <<Len(o.p.ids)>>)>>
       [] o.op = "recent" -> Read(<<Text("format_track_list", result)>>)
       [] o.op = "top_tracks" -> Read(<<Text("format_track_list", result)>>)
       [] o.op = "top_artists" -> Read(TextEach("format_artist", result))

-----------------------------------------------------------------------------
(* The remote service: what each spotipy method may return. *)

Device(id, active) ==
  Dict([name |-> Str("Speaker"), id |-> Str(id), type |-> Str("Speaker"),
        is_active |-> Bool(active), volume_percent |-> IntV(50)])

User == Dict([display_name |-> Str("me"), id |-> Str("u1")])

Payloads(api) ==
  CASE api = "current_user_playing_track" ->
         { NoneV,
           Dict([currently_playing_type |-> Str("track"), item |-> Track1,
                 is_playing |-> Bool(TRUE)]),
           Dict([currently_playing_type |-> Str("track"), item |-> NoneV,
                 is_playing |-> Bool(FALSE)]) }
    [] api = "devices" ->
         { Dict([devices |-> List(<<>>)]),
           Dict([devices |-> List(<<Device("d1", FALSE), Device("d2", TRUE)>>)]),
           Dict([devices |-> List(<<Device("d1", FALSE), Device("d2", TRUE),
                                    Device("d3", TRUE)>>)]),
           Dict([devices |-> List(<<Device("d1", FALSE), Device("d2", FALSE)>>)]) }
    [] api = "current_user" -> {User}
    [] api = "queue" ->
         { Dict([currently_playing |-> NoneV, queue |-> List(<<>>)]),
           Dict([currently_playing |-> Track1, queue |-> List(<<Track2>>)]) }
    [] api = "search" ->
         { Dict([tracks |-> Dict([items |-> List(<<Track1>>)]),
                 artists |-> Dict([items |-> List(<<Artist1>>)]),
                 albums |-> Dict([items |-> List(<<>>)]),
                 playlists |-> Dict([items |-> List(<<NoneV>>)])]) }
    [] api = "track" -> {Track1}
    [] api = "album" -> {Album1}
    [] api = "artist" -> {Artist1}
    [] api = "artist_top_tracks" -> {Dict([tracks |-> List(<<Track1>>)])}
    [] api = "artist_albums" -> {Dict([items |-> List(<<Album1>>)])}
    [] api \in {"playlist", "user_playlist_create"} ->
         {PlaylistOf(Str("me"), <<Dict([track |-> Track1])>>)}
    [] api = "current_user_playlists" ->
         {Dict([items |-> List(<<PlaylistOf(Str("me"), <<>>)>>)])}
    [] api \in {"playlist_items", "current_user_saved_tracks",
                "current_user_recently_played"} ->
         {Dict([items |-> List(<<Dict([track |-> Track1]), Dict([track |-> NoneV])>>)])}
    [] api = "current_user_saved_albums" ->
         {Dict([items |-> List(<<Dict([album |-> Album1])>>)])}
    [] api = "current_user_top_tracks" -> {Dict([items |-> List(<<Track1>>)])}
    [] api = "current_user_top_artists" -> {Dict([items |-> List(<<Artist1>>)])}
    [] OTHER -> {NoneV}

-----------------------------------------------------------------------------
(* Command lines. *)

\* arguments tried on the command line
Arg ==
  [ uri_track |-> <<"s", "p", "o", "t", "i", "f", "y", ":", "t", "r", "a", "c", "k", ":", "t", "1">>,
    uri_album |-> <<"s", "p", "o", "t", "i", "f", "y", ":", "a", "l", "b", "u", "m", ":", "l", "1">>,
    uri_artist |-> <<"s", "p", "o", "t", "i", "f", "y", ":", "a", "r", "t", "i", "s", "t", ":", "a", "1">>,
    uri_playlist |->
      <<"s", "p", "o", "t", "i", "f", "y", ":", "p", "l", "a", "y", "l", "i", "s", "t", ":", "p", "1">>,
    uri_unknown_kind |-> <<"s", "p", "o", "t", "i", "f", "y", ":", "s", "h", "o", "w", ":", "s", "1">>,
    uri_two_parts |-> <<"t", "r", "a", "c", "k", ":", "t", "1">>,
    x |-> <<"x">>,
    q |-> <<"q">>,
    bogus |-> <<"b", "o", "g", "u", "s">>,
    p1 |-> <<"p", "1">>,
    ids_ab |-> <<"a", ",", " ", "b">>,
    types_track_album |-> <<"t", "r", "a", "c", "k", ",", "a", "l", "b", "u", "m">>,
    n5 |-> <<"5">>,
    n2 |-> <<"2">>,
    n0 |-> <<"0">> ]

\* the tokens tried after each command name; --json may stand anywhere
RestTokens(c) ==
  {Flag.json} \cup
  ( CASE c = play_ -> {Arg.uri_track, Arg.uri_album}
      [] c = skip_ -> {Arg.n2, Arg.n0, Arg.x}
      [] c = volume_ -> {Arg.n5, Arg.x}
      [] c = queue_ -> {Sub.add, Arg.uri_track}
      [] c = search_ -> {Arg.q, Flag.type, Arg.types_track_album, Flag.limit, Arg.n5}
      [] c = info_ -> {Arg.uri_track, Arg.uri_album, Arg.uri_artist, Arg.uri_playlist,
                       Arg.uri_unknown_kind,
                       Arg.uri_two_parts}
      [] c \in {playlists_, recent_} -> {Flag.limit, Arg.n5}
      [] c = playlist_ ->
           {Arg.p1, Sub.add, Sub.remove, Sub.create, Arg.ids_ab, Flag.private, Flag.desc}
      [] c = saved_ -> {Sub.tracks, Sub.albums, Flag.limit, Arg.n5}
      [] c \in {save_, unsave_} -> {track_, album_, Arg.ids_ab}
      [] c = top_ -> {Sub.tracks, Sub.artists, Flag.range, short_, Flag.limit, Arg.n5}
      [] OTHER -> {Arg.x} )

Commands ==
  { now_, play_, pause_, skip_, prev_, volume_, devices_, queue_, search_, info_,
    playlists_, playlist_, saved_, save_, unsave_, recent_, top_, help_, Flag.help,
    Flag.h, agent_, Arg.bogus }

\* a command name and up to MaxRest tokens; --json alone before a name; nothing
CommandLines ==
  UNION { {<<c>> \o r : r \in SeqsUpTo(RestTokens(c), MaxRest)} : c \in Commands }
    \cup {<<Flag.json, c>> : c \in Commands} \cup {<<>>, <<Flag.json>>}

\* the commands that take a comma-separated ID list, with every ID argument
IdCommandLines ==
  LET heads == { <<playlist_, Arg.p1, Sub.add>>, <<playlist_, Arg.p1, Sub.remove>>,
                 <<save_, track_>>, <<save_, album_>>, <<unsave_, track_>>,
                 <<unsave_, album_>> }
  IN {h \o <<ids>> : h \in heads, ids \in IdStrings}
       \cup {h \o <<ids, Flag.json>> : h \in heads, ids \in IdStrings}

ArgvSet == CommandLines \cup IdCommandLines

-----------------------------------------------------------------------------
(* One run of the process. *)

\* main() up to get_client(): help, agent, an uncaught IndexError (crash), or
\* the command to dispatch
ParseArgv(a) ==
  IF a = <<>> \/ a[1] \in {help_, Flag.help, Flag.h} THEN [kind |-> "help"]
  ELSE IF a[1] = agent_ THEN [kind |-> "agent"]
  ELSE LET use_json == In(Flag.json, a)
           rest == IF use_json THEN Remove(a, Flag.json) ELSE a
       IN IF rest = <<>> THEN [kind |-> "crash"]
          ELSE [kind |-> "run", use_json |-> use_json, cmd |-> rest[1],
                args |-> Tail(rest)]

InitCli ==
  /\ argv \in ArgvSet
  /\ pc = "main"
  /\ json_mode = FALSE
  /\ command = <<>>
  /\ cmd_args = <<>>
  /\ plan = Idle
  /\ calls = <<>>
  /\ returned = <<>>
  /\ stdout = <<>>
  /\ stderr = <<>>
  /\ exit_code = 0

Init ==
  /\ InitCli
  /\ fn = "idle"
  /\ inp = Idle
  /\ out = Idle

\* the process ends with this on stderr and exit code 1
Fail(line) ==
  /\ stderr' = Append(stderr, line)
  /\ exit_code' = 1
  /\ pc' = "done"

\* main() prints the help or agent text and returns
MainHelp ==
  /\ pc = "main"
  /\ ParseArgv(argv).kind \in {"help", "agent"}
  /\ stdout' = <<Line(IF ParseArgv(argv).kind = "help" THEN "HELP_TEXT" ELSE "AGENT_TEXT",
                      <<>>)>>
  /\ pc' = "done"
  /\ UNCHANGED <<argv, json_mode, command, cmd_args, plan, calls, returned, stderr,
                 exit_code>>
  /\ UNCHANGED pureVars

\* cmd = args[0] on the empty list: IndexError outside any try
MainCrash ==
  /\ pc = "main"
  /\ ParseArgv(argv).kind = "crash"
  /\ Fail(ErrLine("Traceback", "IndexError: list index out of range", <<>>))
  /\ UNCHANGED <<argv, json_mode, command, cmd_args, plan, calls, returned, stdout>>
  /\ UNCHANGED pureVars

\* get_client() raises SystemExit: credentials are missing from the environment
MainNoCredentials ==
  /\ pc = "main"
  /\ ParseArgv(argv).kind = "run"
  /\ Fail(ErrLine("", "Missing SPOTIFY_CLIENT_ID, SPOTIFY_CLIENT_SECRET, or SPOTIFY_REDIRECT_URI",
                  <<>>))
  /\ UNCHANGED <<argv, json_mode, command, cmd_args, plan, calls, returned, stdout>>
  /\ UNCHANGED pureVars

\* main() gets the client and calls _dispatch(sp, cmd, args[1:], use_json)
MainRun ==
  /\ pc = "main"
  /\ ParseArgv(argv).kind = "run"
  /\ json_mode' = ParseArgv(argv).use_json
  /\ command' = ParseArgv(argv).cmd
  /\ cmd_args' = ParseArgv(argv).args
  /\ pc' = "dispatch"
  /\ UNCHANGED <<argv, plan, calls, returned, stdout, stderr, exit_code>>
  /\ UNCHANGED pureVars

\* _dispatch prints a usage or unknown-command line and calls sys.exit(1)
DispatchExit ==
  /\ pc = "dispatch"
  /\ _dispatch(command, cmd_args).kind = "exit"
  /\ Fail(_dispatch(command, cmd_args).stderr)
  /\ UNCHANGED <<argv, json_mode, command, cmd_args, plan, calls, returned, stdout>>
  /\ UNCHANGED pureVars

\* _dispatch raises before it calls the client; main() prints Error: and exits 1
DispatchRaise ==
  /\ pc = "dispatch"
  /\ _dispatch(command, cmd_args).kind = "raise"
  /\ Fail(ErrLine("Error: ", "{}", <<_dispatch(command, cmd_args).exc>>))
  /\ UNCHANGED <<argv, json_mode, command, cmd_args, plan, calls, returned, stdout>>
  /\ UNCHANGED pureVars

\* _dispatch calls the client function
DispatchCall ==
  /\ pc = "dispatch"
  /\ _dispatch(command, cmd_args).kind = "call"
  /\ plan' = _dispatch(command, cmd_args)
  /\ pc' = "client"
  /\ UNCHANGED <<argv, json_mode, command, cmd_args, calls, returned, stdout, stderr,
                 exit_code>>
  /\ UNCHANGED pureVars

\* the client function makes its next remote call, which returns a payload
RemoteReturn ==
  /\ pc = "client"
  /\ NextCall(plan, returned) # NoCall
  /\ calls' = Append(calls, NextCall(plan, returned))
  /\ \E payload \in Payloads(NextCall(plan, returned).api) :
       returned' = Append(returned, payload)
  /\ UNCHANGED <<argv, pc, json_mode, command, cmd_args, plan, stdout, stderr, exit_code>>
  /\ UNCHANGED pureVars

\* mutant: the exception of a remote call is reported and the run goes on
RemoteRaise_Continues ==
  /\ pc = "client"
  /\ NextCall(plan, returned) # NoCall
  /\ calls' = Append(calls, NextCall(plan, returned))
  /\ returned' = Append(returned, NoneV)
  /\ stderr' = Append(stderr, ErrLine("Error: ", "{}", <<"SpotifyException">>))
  /\ UNCHANGED <<argv, pc, json_mode, command, cmd_args, plan, stdout, exit_code>>
  /\ UNCHANGED pureVars

\* the client function makes its next remote call, which raises; main() prints
\* Error: with the collaborator's message and exits 1
RemoteRaise ==
  /\ pc = "client"
  /\ NextCall(plan, returned) # NoCall
  /\ calls' = Append(calls, NextCall(plan, returned))
  /\ Fail(ErrLine("Error: ", "{}", <<"SpotifyException">>))
  /\ UNCHANGED <<argv, json_mode, command, cmd_args, plan, returned, stdout>>
  /\ UNCHANGED pureVars

\* the client function raises on what the remote returned (or on its own
\* argument); main() prints Error: and exits 1
ClientRaise ==
  /\ pc = "client"
  /\ NextCall(plan, returned) = NoCall
  /\ IsRaise(ClientResult(plan, returned))
  /\ Fail(ErrLine("Error: ", "{}", <<ClientResult(plan, returned).v>>))
  /\ UNCHANGED <<argv, json_mode, command, cmd_args, plan, calls, returned, stdout>>
  /\ UNCHANGED pureVars

\* the client function returns and _dispatch prints the result
Finish ==
  /\ pc = "client"
  /\ NextCall(plan, returned) = NoCall
  /\ ~IsRaise(ClientResult(plan, returned))
  /\ stdout' = Output(plan, ClientResult(plan, returned), json_mode)
  /\ pc' = "done"
  /\ UNCHANGED <<argv, json_mode, command, cmd_args, plan, calls, returned, stderr,
                 exit_code>>
  /\ UNCHANGED pureVars

Next ==
  \/ MainHelp
  \/ MainCrash
  \/ MainNoCredentials
  \/ MainRun
  \/ DispatchExit
  \/ DispatchRaise
  \/ DispatchCall
  \/ RemoteReturn
  \/ RemoteRaise
  \/ ClientRaise
  \/ Finish

Spec == Init /\ [][Next]_vars

-----------------------------------------------------------------------------
(* Properties of the pure functions, checked under SpecPure. *)

\* a track item that is null, empty, or lacks its name, id or artists field
MalformedTrack(item) ==
  \/ ~Truthy(item)
  \/ item.t = "dict" /\ ~({"name", "id", "artists"} \subseteq DOMAIN item.v)

\* C1: for every null or malformed track item, parse_track returns the absent
\* value, and so does now_playing for a payload of type 'track' whose item is
\* null or malformed; neither raises.
C1_MalformedTrackIsAbsent ==
  /\ (fn = "parse_track" /\ MalformedTrack(inp.item)) => out = NoneV
  /\ ( /\ fn = "now_playing"
       /\ Contains(inp.current, "currently_playing_type")
       /\ inp.current.v["currently_playing_type"] = Str("track")
       /\ MalformedTrack(Get(inp.current, "item", NoneV)) ) => out = NoneV

\* the raw entries of a playlist whose track is not null, in order
LiveEntries(items) ==
  SelectSeq(items, LAMBDA e : Contains(e, "track") /\ e.v["track"] # NoneV)

\* tracks is the normalization of the non-null tracks of items: none absent,
\* order kept, no longer than items
DropsNullTracks(tracks, items) ==
  /\ tracks.t = "list"
  /\ \A i \in 1..Len(tracks.v) : tracks.v[i] # NoneV
  /\ Len(tracks.v) <= Len(items)
  /\ Len(tracks.v) = Len(LiveEntries(items))
  /\ \A i \in 1..Len(tracks.v) :
       tracks.v[i].v["id"] = LiveEntries(items)[i].v["track"].v["id"]

\* C2: on both paths that normalize playlist tracks (playlist_tracks, and
\* parse_playlist with detailed=True) an item whose track is null is dropped:
\* no absent element, order preserved, length at most the number of raw items.
C2_NullTracksDropped ==
  /\ (fn = "playlist_tracks" /\ ~IsRaise(out))
       => DropsNullTracks(out, inp.results.v["items"].v)
  /\ (fn = "parse_playlist" /\ inp.detailed /\ out.t = "dict")
       => DropsNullTracks(out.v["tracks"], inp.item.v["tracks"].v["items"].v)

\* the result key of a recognized category token
Plural(q) ==
  CASE q = track_ -> "tracks"
    [] q = artist_ -> "artists"
    [] q = album_ -> "albums"
    [] q = playlist_ -> "playlists"

KnownTypes == {track_, artist_, album_, playlist_}

\* the result keys of the recognized categories among the requested tokens
RequestedKeys(types) ==
  {Plural(types[i]) : i \in {j \in 1..Len(types) : types[j] \in KnownTypes}}

\* the provider returned at least one non-null item for the block
HasMatch(results, key) ==
  \E i \in 1..Len(results.v[key].v["items"].v) :
    results.v[key].v["items"].v[i] # NoneV

GoodArtists(item) ==
  /\ Contains(item, "artists")
  /\ item.v["artists"].t = "list"
  /\ \A i \in 1..Len(item.v["artists"].v) :
       {"name", "id"} \subseteq DOMAIN item.v["artists"].v[i].v

\* what one raw artist becomes in the artist field: its name in the summary
\* projection, its {name, id} record in the detailed one
ArtistEntry(a, detailed) ==
  IF detailed THEN Dict([name |-> a.v["name"], id |-> a.v["id"]]) ELSE a.v["name"]

\* C4: for every Track and Album item, summary and detailed: exactly one artist
\* gives a single value in `artist` (the name string in summary), never a list;
\* two or more give a list with one entry per artist in provider order.
C4_ArtistUnion ==
  (fn \in {"parse_track", "parse_album"} /\ out.t = "dict" /\ GoodArtists(inp.item))
    => LET as == inp.item.v["artists"].v
           artist == out.v["artist"]
       IN /\ Len(as) = 1 =>
               /\ artist.t # "list"
               /\ artist = ArtistEntry(as[1], inp.detailed)
          /\ Len(as) >= 2 =>
               /\ artist.t = "list"
               /\ Len(artist.v) = Len(as)
               /\ \A i \in 1..Len(as) : artist.v[i] = ArtistEntry(as[i], inp.detailed)

\* C4 witness: a detailed album with two artists, second artist first.
C4_Witness ==
  /\ fn = "parse_album"
  /\ inp.detailed
  /\ out.t = "dict"
  /\ inp.item.v["artists"] = List(<<Artist2, Artist1>>)
  /\ out.v["artist"].t = "list"

\* C5: _get_flag acts on the first occurrence of the flag only: with a following
\* element exactly those two tokens are removed, the rest keep their order and
\* the following element is returned; a flag in last position is removed alone
\* and the default returned; without the flag the list is unchanged and the
\* default returned.
C5_GetFlagFirstOccurrence ==
  fn = "_get_flag" =>
    LET a == inp.args
        occ == {i \in 1..Len(a) : a[i] = inp.flag}
        first == CHOOSE i \in occ : \A j \in occ : i <= j
    IN IF occ = {}
         THEN out.val = inp.default /\ out.args = a
       ELSE IF first < Len(a)
         THEN /\ out.val = a[first + 1]
              /\ out.args = [k \in 1..(Len(a) - 2) |-> IF k < first THEN a[k] ELSE a[k + 2]]
       ELSE /\ out.val = inp.default
            /\ out.args = [k \in 1..(Len(a) - 1) |-> a[k]]

\* C5 witness: the flag occurs twice, the first time with a value after it; the
\* value is returned and the second occurrence stays.
C5_Witness ==
  /\ fn = "_get_flag"
  /\ inp.args = <<<<"f", "o", "o">>, Flag.limit, <<"5">>, Flag.limit>>
  /\ inp.flag = Flag.limit
  /\ out = [val |-> <<"5">>, args |-> <<<<"f", "o", "o">>, Flag.limit>>]

-----------------------------------------------------------------------------------------------------------------------------------------------------
(* Properties of a run of the command line, checked under Spec. *)

Min(S) == CHOOSE x \in S : \A y \in S : x <= y

Max(S) == CHOOSE x \in S : \A y \in S : x >= y

\* the elements of a finite set of integers in increasing order
RECURSIVE Ascending(_)
Ascending(S) == IF S = {} THEN <<>> ELSE <<Min(S)>> \o Ascending(S \ {Min(S)})

\* t without its leading and trailing whitespace
Trimmed(t) ==
  LET solid == {i \in 1..Len(t) : t[i] \notin Whitespace}
  IN IF solid = {} THEN <<>> ELSE SubSeq(t, Min(solid), Max(solid))

\* the text between the cut at position c (a comma, or the start) and the next
TokenAfter(s, c) ==
  LET cuts == {i \in 1..Len(s) : s[i] = ","} \cup {Len(s) + 1}
  IN SubSeq(s, c + 1, Min({d \in cuts : d > c}) - 1)

\* the non-empty trimmed comma-separated tokens of s, in order
TrimmedTokens(s) ==
  LET cuts == {0} \cup {i \in 1..Len(s) : s[i] = ","}
      kept == Ascending({c \in cuts : Trimmed(TokenAfter(s, c)) # <<>>})
  IN [k \in DOMAIN kept |-> Trimmed(TokenAfter(s, kept[k]))]

\* the run is `playlist <id> add|remove <ids>`
IsPlaylistEdit ==
  command = playlist_ /\ Len(cmd_args) >= 3 /\ cmd_args[2] \in {Sub.add, Sub.remove}

\* the run is `save|unsave track|album <ids>`
IsSaveUnsave ==
  command \in {save_, unsave_} /\ Len(cmd_args) >= 2 /\ cmd_args[1] \in {track_, album_}

\* the ID argument of such a run
IdArgument == IF IsPlaylistEdit THEN cmd_args[3] ELSE cmd_args[2]

\* the ID list that the remote call of such a run was given
IdsPassed(c) ==
  CASE c.api \in {"playlist_add_items", "playlist_remove_all_occurrences_of_items"} ->
         c.kw.items
    [] c.api \in {"current_user_saved_tracks_add", "current_user_saved_tracks_delete"} ->
         c.kw.tracks
    [] c.api \in {"current_user_saved_albums_add", "current_user_saved_albums_delete"} ->
         c.kw.albums
    [] OTHER -> <<"no ID list">>

\* the confirmation line of such a run reports n IDs
ReportsCount(n) ==
  /\ Len(stdout) = 1
  /\ stdout[1].fmt \in {"Added {} track(s).", "Removed {} track(s).", "Saved {} track(s).",
                        "Saved {} album(s).", "Removed {} album(s)."}
  /\ stdout[1].values = <<n>>

\* C6: for playlist add/remove and save/unsave the one remote operation gets
\* exactly the trimmed, non-empty comma-separated tokens of the ID argument in
\* order; it is invoked even when there are none, and the confirmation line
\* then reports that count (0 when every token is empty).
C6_IdsAreTrimmedTokens ==
  (IsPlaylistEdit \/ IsSaveUnsave) =>
    /\ pc = "done" => Len(calls) = 1
    /\ \A i \in 1..Len(calls) : IdsPassed(calls[i]) = TrimmedTokens(IdArgument)
    /\ (pc = "done" /\ exit_code = 0) => ReportsCount(Len(TrimmedTokens(IdArgument)))

\* every token of " ,," is empty: remove is invoked with no IDs and reports 0
C6_Witness ==
  /\ pc = "done"
  /\ argv = <<playlist_, Arg.p1, Sub.remove, <<" ", ",", ",">>>>
  /\ calls = <<RCall("playlist_remove_all_occurrences_of_items",
                     [playlist_id |-> Arg.p1, items |-> <<>>])>>
  /\ stdout = <<Line("Removed {} track(s).", <<0>>)>>
  /\ exit_code = 0

\* args without its flags: a bare flag is one token, a valued flag takes the
\* token after it along
RECURSIVE Positionals(_, _, _)
Positionals(args, valued, bare) ==
  IF args = <<>> THEN <<>>
  ELSE IF Head(args) \in bare THEN Positionals(Tail(args), valued, bare)
  ELSE IF Head(args) \in valued
    THEN Positionals(IF Len(args) >= 2 THEN Tail(Tail(args)) ELSE <<>>, valued, bare)
  ELSE <<Head(args)>> \o Positionals(Tail(args), valued, bare)

\* the command was given fewer positional arguments than its operation needs
TooFewPositionals ==
  CASE command \in {volume_, info_} -> cmd_args = <<>>
    [] command = queue_ -> cmd_args = <<Sub.add>>
    [] command = search_ -> Positionals(cmd_args, {Flag.type, Flag.limit}, {}) = <<>>
    [] command = playlist_ ->
         \/ cmd_args = <<>>
         \/ Len(cmd_args) = 2 /\ cmd_args[2] \in {Sub.add, Sub.remove}
         \/ /\ cmd_args # <<>>
            /\ cmd_args[1] = Sub.create
            /\ Positionals(Tail(cmd_args), {Flag.desc}, {Flag.private}) = <<>>
    [] command = saved_ -> Positionals(cmd_args, {Flag.limit}, {}) = <<>>
    [] command \in {save_, unsave_} -> Len(cmd_args) < 2
    [] command = top_ -> Positionals(cmd_args, {Flag.range, Flag.limit}, {}) = <<>>
    [] OTHER -> FALSE

\* C7: a dispatch with fewer positional arguments (flags removed) than the
\* operation's minimum makes no remote call and ends with a Usage line on
\* stderr and a non-zero exit code.
C7_TooFewArgumentsIsUsage ==
  TooFewPositionals =>
    /\ calls = <<>>
    /\ pc = "done" =>
         /\ exit_code # 0
         /\ Len(stderr) = 1
         /\ stderr[1].prefix = "Usage: "

\* u does not split on ":" into three parts, or its kind part is unknown
BadInfoUri(u) ==
  LET colons == {i \in 1..Len(u) : u[i] = ":"}
  IN \/ Cardinality(colons) # 2
     \/ SubSeq(u, Min(colons) + 1, Max(colons) - 1) \notin {track_, album_, artist_, playlist_}

\* the run is `info <uri>` with such a URI
IsBadInfo == command = info_ /\ cmd_args # <<>> /\ BadInfoUri(cmd_args[1])

\* C8: info with an identifier that is not three ":"-separated parts, or whose
\* kind is not track, album, artist or playlist, makes no remote call and
\* fails with exit code 1.
C8_BadInfoFailsBeforeRemote ==
  IsBadInfo =>
    /\ calls = <<>>
    /\ pc = "done" => exit_code = 1

\* `info track:t1` has ended: exit code 1 and not one remote call
C8_Witness ==
  /\ pc = "done"
  /\ argv = <<info_, Arg.uri_two_parts>>
  /\ plan = Call("info", [uri |-> Arg.uri_two_parts])
  /\ calls = <<>>
  /\ stdout = <<>>
  /\ exit_code = 1

\* C9: a failed run reports an argument-contract failure (info with a
\* malformed or unknown-kind identifier included) as a Usage: line, and the
\* Error: prefix appears only when a remote call was attempted.
C9_ErrorTextClassified ==
  (pc = "done" /\ exit_code # 0 /\ command # <<>>) =>
    /\ IsBadInfo => stderr[1].prefix = "Usage: "
    /\ stderr[1].prefix = "Error: " => calls # <<>>

Mutating ==
  { "play", "pause", "skip", "prev", "volume", "queue_add", "playlist_add",
    "playlist_remove", "playlist_create", "save_tracks", "save_albums", "unsave_tracks",
    "unsave_albums" }

\* the fixed confirmation line of a mutating operation, with its effect
Confirmation(o) ==
  CASE o.op = "play" ->
         Line(IF o.p.uri = NoneV \/ o.p.uri.v = <<>> THEN "Resumed." ELSE "Playing.", <<>>)
    [] o.op = "pause" -> Line("Paused.", <<>>)
    [] o.op = "skip" -> Line("Skipped {} track(s).", <<o.p.n>>)
    [] o.op = "prev" -> Line("Previous track.", <<>>)
    [] o.op = "volume" -> Line("Volume: {}%", <<o.p.level>>)
    [] o.op = "queue_add" -> Line("Added to queue.", <<>>)
    [] o.op = "playlist_add" -> Line("Added {} track(s).", <<Len(o.p.track_ids)>>)
    [] o.op = "playlist_remove" -> Line("Removed {} track(s).", <<Len(o.p.track_ids)>>)
    [] o.op = "playlist_create" ->
         Text("Created: format_playlist", ClientResult(o, returned))
    [] o.op = "save_tracks" -> Line("Saved {} track(s).", <<Len(o.p.ids)>>)
    [] o.op = "save_albums" -> Line("Saved {} album(s).", <<Len(o.p.ids)>>)
    [] o.op = "unsave_tracks" -> Line("Removed {} track(s).", <<Len(o.p.ids)>>)
    [] o.op = "unsave_albums" -> Line("Removed {} album(s).", <<Len(o.p.ids)>>)

\* the run called a client function and ended well
Succeeded == pc = "done" /\ exit_code = 0 /\ "op" \in DOMAIN plan

\* C10 as stated: a successful mutating operation, playlist create included,
\* prints its text confirmation line whether or not --json was given, and
\* never JSON.
C10_MutatingNeverJson ==
  (Succeeded /\ plan.op \in Mutating) => stdout = <<Confirmation(plan)>>

\* C10 amended: a successful mutating operation other than playlist create
\* prints its fixed confirmation line whether or not --json was given;
\* playlist create prints the created playlist as JSON under --json and as a
\* text confirmation otherwise.
C10_MutatingNeverJsonButCreate ==
  (Succeeded /\ plan.op \in Mutating) =>
    IF plan.op = "playlist_create" /\ json_mode
      THEN stdout = <<Json(ClientResult(plan, returned))>>
      ELSE stdout = <<Confirmation(plan)>>

\* `pause --json` has ended well: the output is the fixed line, not JSON
C10_Witness ==
  /\ pc = "done"
  /\ argv = <<pause_, Flag.json>>
  /\ json_mode
  /\ Len(calls) = 2
  /\ exit_code = 0
  /\ stdout = <<Line("Paused.", <<>>)>>

\* the names of the remote methods called, in order
ApiNames(cs) == [i \in DOMAIN cs |-> cs[i].api]

\* n times the name a
Repeat(a, n) == [i \in 1..n |-> a]

\* p is an initial part of s
IsPrefix(p, s) == Len(p) <= Len(s) /\ SubSeq(s, 1, Len(p)) = p

\* the kind part of a three-part URI
UriKind(u) ==
  LET colons == {i \in 1..Len(u) : u[i] = ":"}
  IN SubSeq(u, Min(colons) + 1, Max(colons) - 1)

\* the remote methods one run of a client operation calls, in order
ApisOf(o) ==
  CASE o.op = "now_playing" -> <<"current_user_playing_track">>
    [] o.op = "play" -> <<"devices", "start_playback">>
    [] o.op = "pause" -> <<"devices", "pause_playback">>
    [] o.op = "skip" -> Repeat("next_track", o.p.n)
    [] o.op = "prev" -> <<"previous_track">>
    [] o.op = "volume" -> <<"volume">>
    [] o.op = "devices" -> <<"devices">>
    [] o.op = "get_queue" -> <<"queue">>
    [] o.op = "queue_add" -> <<"add_to_queue">>
    [] o.op = "search" -> <<"current_user", "search">>
    [] o.op = "info" ->
         IF BadInfoUri(o.p.uri) THEN <<>>
         ELSE IF UriKind(o.p.uri) = track_ THEN <<"track">>
         ELSE IF UriKind(o.p.uri) = album_ THEN <<"album">>
         ELSE IF UriKind(o.p.uri) = artist_
           THEN <<"artist", "artist_top_tracks", "artist_albums">>
         ELSE <<"current_user", "playlist">>
    [] o.op = "playlists" -> <<"current_user", "current_user_playlists">>
    [] o.op = "playlist_tracks" -> <<"playlist_items">>
    [] o.op = "playlist_add" -> <<"playlist_add_items">>
    [] o.op = "playlist_remove" -> <<"playlist_remove_all_occurrences_of_items">>
    [] o.op = "playlist_create" -> <<"current_user", "current_user", "user_playlist_create">>
    [] o.op = "saved_tracks" -> <<"current_user_saved_tracks">>
    [] o.op = "saved_albums" -> <<"current_user_saved_albums">>
    [] o.op = "save_tracks" -> <<"current_user_saved_tracks_add">>
    [] o.op = "save_albums" -> <<"current_user_saved_albums_add">>
    [] o.op = "unsave_tracks" -> <<"current_user_saved_tracks_delete">>
    [] o.op = "unsave_albums" -> <<"current_user_saved_albums_delete">>
    [] o.op = "recent" -> <<"current_user_recently_played">>
    [] o.op = "top_tracks" -> <<"current_user_top_tracks">>
    [] o.op = "top_artists" -> <<"current_user_top_artists">>

\* C11 as stated: a dispatch that passes validation and succeeds has made
\* exactly one remote API call.
C11_ExactlyOneRemoteCall ==
  Succeeded => Len(calls) = 1

\* C11 amended: a dispatch that passes validation runs one client operation
\* once; its remote API calls are the fixed sequence of that operation (two
\* for play, pause, search and playlists, three for playlist create and info
\* on an artist, n for skip n), each made once and none repeated.
C11_CallsAreTheOperationsSequence ==
  "op" \in DOMAIN plan =>
    /\ IsPrefix(ApiNames(calls), ApisOf(plan))
    /\ Succeeded => ApiNames(calls) = ApisOf(plan)

\* `play <track uri>` has ended well after the device lookup and the playback call
C11_Witness ==
  /\ pc = "done"
  /\ exit_code = 0
  /\ argv = <<play_, Arg.uri_track>>
  /\ ApiNames(calls) = <<"devices", "start_playback">>
  /\ stdout = <<Line("Playing.", <<>>)>>

\* C12: a run whose argument vector holds --json resolves as the vector
\* without that token does: help and agent print their text and exit 0 with
\* no remote call, and any other vector runs the same command on the same
\* arguments.
C12_JsonOnlyChangesRendering ==
  (In(Flag.json, argv) /\ pc = "done") =>
    LET base == ParseArgv(Remove(argv, Flag.json))
    IN /\ base.kind \in {"help", "agent"} =>
            /\ exit_code = 0
            /\ calls = <<>>
            /\ stderr = <<>>
            /\ stdout = <<Line(IF base.kind = "help" THEN "HELP_TEXT" ELSE "AGENT_TEXT",
                               <<>>)>>
       /\ (base.kind = "run" /\ command # <<>>) =>
            /\ command = base.cmd
            /\ cmd_args = base.args

\* a remote call of the run raised
RemoteRaised == stderr # <<>> /\ stderr[1].args = <<"SpotifyException">>

\* info on an artist has made a prefix of its three calls, in their order
ArtistCallsInOrder ==
  ("op" \in DOMAIN plan /\ plan.op = "info" /\ ~BadInfoUri(plan.p.uri) /\ UriKind(plan.p.uri) = artist_)
    => IsPrefix(ApiNames(calls), <<"artist", "artist_top_tracks", "artist_albums">>)

\* a raised remote call has ended the run, reported once, with nothing on stdout
RaiseEndsRun ==
  RemoteRaised =>
    /\ pc = "done"
    /\ exit_code = 1
    /\ stdout = <<>>
    /\ stderr = <<ErrLine("Error: ", "{}", <<"SpotifyException">>)>>
    /\ Len(calls) = Len(returned) + 1

\* C13: info on an artist calls artist detail, then top tracks, then the
\* album list; once a remote call of any operation has raised, the run has
\* ended with exit code 1, Error: and the collaborator's message alone on
\* stderr and nothing on stdout, the failed call was made once, and no remote
\* call follows it.
C13_RemoteFailureAborts ==
  /\ [](ArtistCallsInOrder /\ RaiseEndsRun)
  /\ [][RemoteRaised => UNCHANGED <<calls, stdout, stderr, exit_code>>]_vars

\* info on an artist: the album list call raised after the first two returned
C13_Witness ==
  /\ pc = "done"
  /\ argv = <<info_, Arg.uri_artist>>
  /\ ApiNames(calls) = <<"artist", "artist_top_tracks", "artist_albums">>
  /\ Len(returned) = 2
  /\ RemoteRaised
  /\ stdout = <<>>
  /\ exit_code = 1

\* the recognized tokens of a category list, in their order
RecognizedTypes(types) ==
  LET IsKnown(q) == q \in KnownTypes IN SelectSeq(types, IsKnown)

\* C14: in search normalization a token of the comma-separated category list
\* that is not exactly track, artist, album or playlist is ignored without
\* error: the result is the one the recognized tokens alone produce, and it
\* has no key but those of recognized tokens.
C14_UnknownTypesIgnored ==
  fn = "parse_search_results" =>
    /\ out = SearchLoop(EmptyDict, inp.results, RecognizedTypes(inp.types), inp.username)
    /\ ~IsRaise(out) => DOMAIN out.v \subseteq RequestedKeys(inp.types)
    /\ RecognizedTypes(inp.types) = <<>> => out = EmptyDict

\* C14 witness: "tracks,album" with both blocks matched: the plural token is
\* ignored and the result holds the albums alone.
C14_Witness ==
  /\ fn = "parse_search_results"
  /\ inp.types = <<track_ \o <<"s">>, album_>>
  /\ inp.qtype = <<"t", "r", "a", "c", "k", "s", ",", "a", "l", "b", "u", "m">>
  /\ Contains(inp.results, "tracks")
  /\ HasMatch(inp.results, "tracks")
  /\ out.t = "dict"
  /\ DOMAIN out.v = {"albums"}
  /\ Len(out.v["albums"].v) = 2

\* C15: for every non-null playlist item, the normalized record has no
\* user_is_owner field when the caller identity is absent, and when it is
\* present the field is there and is true exactly when the owner's display
\* name equals the caller identity character for character.
C15_UserIsOwnerIffIdentityPresent ==
  (fn = "parse_playlist" /\ inp.item # NoneV /\ out.t = "dict") =>
    /\ inp.username = NoneV => "user_is_owner" \notin DOMAIN out.v
    /\ inp.username # NoneV =>
         /\ "user_is_owner" \in DOMAIN out.v
         /\ out.v["user_is_owner"] = Bool(inp.item.v["owner"].v["display_name"] = inp.username)

\* the flags a command extracts from its tokens
RecognizedFlags(c) ==
  CASE c = search_ -> {Flag.type, Flag.limit}
    [] c = top_ -> {Flag.range, Flag.limit}
    [] c \in {saved_, recent_, playlists_} -> {Flag.limit}
    [] OTHER -> {}

\* the positions of args where a recognized flag is followed by its value,
\* no other token of args being a recognized flag
FlagPairs(c, args) ==
  {i \in 1..(Len(args) - 1) :
     /\ args[i] \in RecognizedFlags(c)
     /\ \A k \in (1..Len(args)) \ {i} : args[k] \notin RecognizedFlags(c)}

\* args with the two tokens at i and i + 1 moved so that j tokens precede them
MovePair(args, i, j) ==
  LET rest == SubSeq(args, 1, i - 1) \o SubSeq(args, i + 2, Len(args))
  IN SubSeq(rest, 1, j) \o SubSeq(args, i, i + 1) \o SubSeq(rest, j + 1, Len(rest))

\* C16: for search, saved, top, recent and playlists, moving a recognized
\* flag/value pair to any other position among the tokens after the command
\* name changes neither the operation resolved, nor the positional residue,
\* nor the flag values passed to it.
C16_FlagPositionIrrelevant ==
  (pc \in {"dispatch", "client", "done"} /\ command # <<>>) =>
    \A i \in FlagPairs(command, cmd_args) :
      \A j \in 0..(Len(cmd_args) - 2) :
        _dispatch(command, MovePair(cmd_args, i, j)) = _dispatch(command, cmd_args)

\* the device list of a payload of sp.devices()
DeviceList(payload) == payload.v["devices"].v

\* the positions of the devices marked is_active
ActiveDevices(ds) == {i \in 1..Len(ds) : ds[i].v["is_active"] = Bool(TRUE)}

\* the first active device's id, else the first device's id, else null
TargetDevice(ds) ==
  IF ds = <<>> THEN NoneV
  ELSE IF ActiveDevices(ds) # {} THEN ds[Min(ActiveDevices(ds))].v["id"]
  ELSE ds[1].v["id"]

\* C17: play and pause fetch the device list before the playback call, and the
\* playback call targets the first device marked is_active if there is one,
\* else the first device of the list, and no device only when the list is empty.
C17_DeviceSelection ==
  ("op" \in DOMAIN plan /\ plan.op \in {"play", "pause"} /\ calls # <<>>) =>
    /\ calls[1] = RCall("devices", <<>>)
    /\ Len(calls) >= 2 =>
         /\ Len(returned) >= 1
         /\ calls[2].api = (IF plan.op = "play" THEN "start_playback" ELSE "pause_playback")
         /\ calls[2].kw.device_id = TargetDevice(DeviceList(returned[1]))
         /\ calls[2].kw.device_id = NoneV <=> DeviceList(returned[1]) = <<>>

\* C17 witness: pause with the first device inactive and the next two active
\* targets the second device.
C17_Witness ==
  /\ pc = "done"
  /\ exit_code = 0
  /\ argv = <<pause_>>
  /\ Len(DeviceList(returned[1])) = 3
  /\ ActiveDevices(DeviceList(returned[1])) = {2, 3}
  /\ calls = <<RCall("devices", <<>>), RCall("pause_playback", [device_id |-> Str("d2")])>>

\* the tokens of a playlist name: no --private and no --desc among them
NameTokens(ts) == ts # <<>> /\ ~In(Flag.private, ts) /\ ~In(Flag.desc, ts)

\* C18: the playlist track listing is resolved only for a playlist <id> that no
\* sub-command token follows; playlist <id> add and playlist <id> remove
\* without an ID-list token make no remote call; playlist create <name tokens>
\* resolves to the create operation with the space-joined tokens as the name,
\* whatever the tokens are.
C18_PlaylistRoutes ==
  (pc \in {"dispatch", "client", "done"} /\ command = playlist_ /\ cmd_args # <<>>) =>
    /\ _dispatch(command, cmd_args) = Call("playlist_tracks", [playlist_id |-> cmd_args[1]])
         => (Len(cmd_args) = 1 \/ cmd_args[2] \notin {Sub.add, Sub.remove, Sub.create})
    /\ (Len(cmd_args) = 2 /\ cmd_args[1] # Sub.create /\ cmd_args[2] \in {Sub.add, Sub.remove})
         => /\ _dispatch(command, cmd_args).kind = "exit"
            /\ calls = <<>>
    /\ (Len(cmd_args) >= 2 /\ cmd_args[1] = Sub.create /\ NameTokens(Tail(cmd_args)))
         => _dispatch(command, cmd_args) =
              Call("playlist_create", [name |-> Join(Tail(cmd_args), " "), public |-> TRUE,
                                       description |-> <<>>])

-----
====
